---------------------------- MODULE Spec2Model ----------------------------
(***************************************************************************)
(* fetch-mcp: the secure fetch pipeline of src/src/index.ts.               *)
(*                                                                         *)
(* One inbound HTTP request is followed through the Express chain          *)
(* (express.json, the secret middleware, the /mcp route), the web_fetch    *)
(* handler (validateRequest, mergeAndFilterHeaders) and performFetch (the  *)
(* timer, the network call, the body read, truncation, logRequest).        *)
(*                                                                         *)
(* Strings are sequences of tokens: a token is one character ("G"), or a   *)
(* literal chunk of a template string taken whole ("URL not allowed: ").   *)
(* String operations (toUpperCase, startsWith, includes, RegExp.test) are  *)
(* computed over these sequences.                                          *)
(***************************************************************************)
EXTENDS Integers, Sequences, FiniteSets, TLC

VARIABLES
    config,          \* the Config the server was created with (read-only)
    now,             \* wall clock, in milliseconds
    pc,              \* position of the invocation in the pipeline
    req,             \* the inbound HTTP request, as the middlewares see it
    httpRes,         \* what Express has answered at the HTTP level
    args,            \* the tool arguments url and method
    toolHeaders,     \* the tool argument headers
    passHeaders,     \* extra.requestInfo.headers
    filteredHeaders, \* the result of mergeAndFilterHeaders
    entered,         \* the functions entered for this request
    netCall,         \* the fetch() call issued to the target, if any
    timer,           \* the setTimeout of performFetch
    fetchState,      \* the state of the promise returned by fetch()
    response,        \* status, content type and body of the target's response
    retrievedAt,     \* the timestamp performFetch / validateRequest took
    concludedAt,     \* the time the attempt concluded
    logged,          \* the logRequest calls of this invocation
    result           \* the tool result returned to the caller

vars == <<config, now, pc, req, httpRes, args, toolHeaders, passHeaders,
          filteredHeaders, entered, netCall, timer, fetchState, response,
          retrievedAt, concludedAt, logged, result>>

----------------------------------------------------------------------------
(* Strings *)

Letters == <<"a","b","c","d","e","f","g","h","i","j","k","l","m",
             "n","o","p","q","r","s","t","u","v","w","x","y","z">>
Capitals == <<"A","B","C","D","E","F","G","H","I","J","K","L","M",
              "N","O","P","Q","R","S","T","U","V","W","X","Y","Z">>

IndexIn(c, alphabet) ==
    IF \E i \in DOMAIN alphabet : alphabet[i] = c
    THEN CHOOSE i \in DOMAIN alphabet : alphabet[i] = c
    ELSE 0

ToUpperChar(c) == IF IndexIn(c, Letters) > 0 THEN Capitals[IndexIn(c, Letters)] ELSE c
ToLowerChar(c) == IF IndexIn(c, Capitals) > 0 THEN Letters[IndexIn(c, Capitals)] ELSE c

ToUpperCase(s) == [i \in DOMAIN s |-> ToUpperChar(s[i])]
ToLowerCase(s) == [i \in DOMAIN s |-> ToLowerChar(s[i])]

\* s.startsWith(p)
StartsWith(s, p) == Len(p) <= Len(s) /\ SubSeq(s, 1, Len(p)) = p
\* the positions at which p occurs in s
Occurrences(s, p) ==
    {i \in 1..(Len(s) - Len(p) + 1) : SubSeq(s, i, i + Len(p) - 1) = p}
\* s.includes(p)
Includes(s, p) == Occurrences(s, p) # {}

RECURSIVE Join(_, _)
\* Array.prototype.join(sep) over an array of strings
Join(arr, sep) ==
    IF Len(arr) = 0 THEN <<>>
    ELSE IF Len(arr) = 1 THEN arr[1]
    ELSE arr[1] \o sep \o Join(Tail(arr), sep)

\* the members of an array, as a set
Range(f) == {f[i] : i \in DOMAIN f}

\* A byte sequence or a string is held run-length: run times the first unit
\* (the byte 0x41, the character "A"), then rest.  enc says what the units
\* are; a base64 string is held as the bytes it encodes.
Str(enc, run, rest) == [enc |-> enc, run |-> run, rest |-> rest]
\* a string given by its tokens
Text(tokens) == Str("text", 0, tokens)
\* the value of a field that is not there
NoStr == Str("none", 0, <<>>)


----------------------------------------------------------------------------
(* Values of the model *)

\* JavaScript's undefined, as a string no token sequence of characters equals
Undefined == <<"undefined">>

GET == <<"G","E","T">>
PUT == <<"P","U","T">>
POST == <<"P","O","S","T">>
\* the method arguments a caller may give (Undefined: the argument is left out)
MethodArgs ==
    {GET, <<"g","e","t">>, <<"G","e","t">>, PUT, <<"p","u","t">>, POST, Undefined}

\* target URLs: "http://a", "http://a/x", "http://b", "http://b/?http://a"
UrlA   == <<"http://","a">>
UrlAx  == <<"http://","a","/","x">>
UrlB   == <<"http://","b">>
UrlBqA == <<"http://","b","/","?","http://","a">>
Urls == {UrlA, UrlAx, UrlB, UrlBqA}

\* strings that are not absolute URLs: "not a url", "/x"
NotAUrl == <<"not a url">>
RelativeUrl == <<"/","x">>
\* new URL(url) returns (it throws a TypeError otherwise): the string starts
\* with a scheme
UrlParses(url) == Len(url) > 0 /\ Head(url) \in {"http://", "https://"}

\* allow-patterns, by their source text: ^http://a   http://a   ^http://a$
ReStart == <<"^","http://","a">>
ReAny   == <<"http://","a">>
ReExact == <<"^","http://","a","$">>
Regexes == {ReStart, ReAny, ReExact}

\* header names as the allow-sets hold them (lowercase), and as requests spell them
accept == <<"a","c","c","e","p","t">>
auth   == <<"a","u","t","h">>
Accept == <<"A","c","c","e","p","t">>
Auth   == <<"A","u","t","h">>
XId    == <<"X","-","I","d">>

Secret == <<"s","3","c">>
\* the values of the X-WebFetchMcp-Secret header a client may send
SecretHeaders ==
    { [present |-> FALSE, value |-> <<>>],
      [present |-> TRUE,  value |-> Secret],
      [present |-> TRUE,  value |-> <<"s","3">>],
      [present |-> TRUE,  value |-> <<"S","3","C">>],
      [present |-> TRUE,  value |-> <<>>] }

\* milliseconds per second: the factor of the setTimeout delay
MsPerSecond == 1000
\* bytes per kilobyte: the factor of maxBytes
BytesPerKB == 1024

\* how many seconds the clock may advance during one behaviour
MaxClock == 2
\* how many bytes of a body are given one by one (the rest is a run of ASCII)
MaxTail == 2
\* the largest chunk of a body the transport hands over at once, in bytes
MaxChunk == 2

----------------------------------------------------------------------------
(* Config: parseArgs *)

\* the Config parseArgs builds when no option is given, with short names
DefaultConfig ==
    [ secret                        |-> Secret,
      allowedUrlRegex               |-> ReStart,
      allowedMethods                |-> <<GET>>,
      allowedToolHeaderNames        |-> {accept},
      allowedPassthroughHeaderNames |-> {},
      fetchTimeout                  |-> 1,
      fetchMaxResponseSize          |-> 1 ]

\* allowedMethods is a Set: an array without repetition, in insertion order;
\* parseArgs uppercases every member
MethodSets == {<<GET>>, <<GET, PUT>>}
\* parseArgs lowercases every member of the two header allow-sets
HeaderSets == {{}, {accept}, {auth}}

\* the configurations explored: each option varied against the defaults
Configs ==
    {[DefaultConfig EXCEPT !.allowedUrlRegex = r, !.allowedMethods = m] :
        r \in Regexes, m \in MethodSets}
    \cup
    {[DefaultConfig EXCEPT !.allowedToolHeaderNames = t,
                           !.allowedPassthroughHeaderNames = p] :
        t \in HeaderSets, p \in HeaderSets}
    \cup
    {[DefaultConfig EXCEPT !.fetchTimeout = s, !.fetchMaxResponseSize = k] :
        s \in {1, 2}, k \in {1, 2}}

----------------------------------------------------------------------------
(* RegExp *)

\* new RegExp(source): a literal, with an optional ^ in front and $ behind
RegexAnchoredStart(source) == Len(source) > 0 /\ Head(source) = "^"
RegexAnchoredEnd(source) == Len(source) > 0 /\ source[Len(source)] = "$"
RegexLiteral(source) ==
    SubSeq(source,
           IF RegexAnchoredStart(source) THEN 2 ELSE 1,
           IF RegexAnchoredEnd(source) THEN Len(source) - 1 ELSE Len(source))

\* regex.test(s): the literal occurs in s, at the places the anchors allow
RegexTest(source, s) ==
    \E i \in Occurrences(s, RegexLiteral(source)) :
        /\ RegexAnchoredStart(source) => i = 1
        /\ RegexAnchoredEnd(source) => i + Len(RegexLiteral(source)) - 1 = Len(s)

----------------------------------------------------------------------------
(* Tool results *)

\* a content part: a text part holds text, an image part holds data
TextPart(text, mimeType) ==
    [type |-> "text", text |-> text, data |-> NoStr, mimeType |-> mimeType]
ImagePart(data, mimeType) ==
    [type |-> "image", text |-> NoStr, data |-> data, mimeType |-> mimeType]

\* a slip: the error result carries 0, not the sentinel
ErrorResult_NoSentinel(url, at, text) ==
    [ content           |-> <<TextPart(text, Undefined)>>,
      structuredContent |-> [url |-> url, retrievedAt |-> at, statusCode |-> 0,
                             hasHeaders |-> FALSE],
      isError           |-> TRUE ]

\* the error result of validateRequest and of the catch blocks of performFetch:
\* one text part without mimeType, statusCode -1, no headers, isError true
ErrorResult(url, at, text) ==
    [ content           |-> <<TextPart(text, Undefined)>>,
      structuredContent |-> [url |-> url, retrievedAt |-> at, statusCode |-> -1,
                             hasHeaders |-> FALSE],
      isError           |-> TRUE ]

\* a slip: a status of 400 and above sets the error flag
SuccessResult_ErrorByStatus(url, at, status, part) ==
    [ content           |-> <<part>>,
      structuredContent |-> [url |-> url, retrievedAt |-> at, statusCode |-> status,
                             hasHeaders |-> TRUE],
      isError           |-> status >= 400 ]

\* a slip: the part is left out of the content
SuccessResult_NoPart(url, at, status, part) ==
    [ content           |-> <<>>,
      structuredContent |-> [url |-> url, retrievedAt |-> at, statusCode |-> status,
                             hasHeaders |-> TRUE],
      isError           |-> FALSE ]

\* the result of a fetch that got a response: one part, the status of the
\* response, its headers, and no isError field (FALSE here)
SuccessResult(url, at, status, part) ==
    [ content           |-> <<part>>,
      structuredContent |-> [url |-> url, retrievedAt |-> at, statusCode |-> status,
                             hasHeaders |-> TRUE],
      isError           |-> FALSE ]

\* no result yet
NoResult ==
    [ content           |-> <<>>,
      structuredContent |-> [url |-> <<>>, retrievedAt |-> 0, statusCode |-> 0,
                             hasHeaders |-> FALSE],
      isError           |-> FALSE ]

----------------------------------------------------------------------------
(* validateRequest *)

\* a slip: the message leaves out the pattern's source
UrlRejectionText_NoSource(url, cfg) ==
    Text(<<"URL not allowed: ">> \o url)

UrlRejectionText(url, cfg) ==
    Text(<<"URL not allowed: ">> \o url \o <<" does not match allowed regex ">>
            \o cfg.allowedUrlRegex)

MethodRejectionText(method, cfg) ==
    Text(<<"Method not allowed: ">> \o method \o <<". Allowed methods: ">>
            \o Join(cfg.allowedMethods, <<", ">>))

\* a slip: the URL is not checked
validateRequest_NoUrlCheck(url, method, cfg, at) ==
    IF ToUpperCase(method) \notin Range(cfg.allowedMethods)
    THEN <<ErrorResult(url, at, MethodRejectionText(method, cfg))>>
    ELSE <<>>

\* a slip: the method is compared as given, not uppercased
validateRequest_NoUpperCase(url, method, cfg, at) ==
    IF ~RegexTest(cfg.allowedUrlRegex, url)
    THEN <<ErrorResult(url, at, UrlRejectionText(url, cfg))>>
    ELSE IF method \notin Range(cfg.allowedMethods)
    THEN <<ErrorResult(url, at, MethodRejectionText(method, cfg))>>
    ELSE <<>>

\* a slip: the method is checked before the URL
validateRequest_MethodFirst(url, method, cfg, at) ==
    IF ToUpperCase(method) \notin Range(cfg.allowedMethods)
    THEN <<ErrorResult(url, at, MethodRejectionText(method, cfg))>>
    ELSE IF ~RegexTest(cfg.allowedUrlRegex, url)
    THEN <<ErrorResult(url, at, UrlRejectionText(url, cfg))>>
    ELSE <<>>

\* validateRequest(url, method, config) at time at: <<>> is null (validation
\* passed), <<r>> is the rejection r
validateRequest(url, method, cfg, at) ==
    IF ~RegexTest(cfg.allowedUrlRegex, url)
    THEN <<ErrorResult(url, at, UrlRejectionText(url, cfg))>>
    ELSE IF ToUpperCase(method) \notin Range(cfg.allowedMethods)
    THEN <<ErrorResult(url, at, MethodRejectionText(method, cfg))>>
    ELSE <<>>

----------------------------------------------------------------------------
(* mergeAndFilterHeaders *)

\* a header value of IsomorphicHeaders: a string, an array of strings, undefined
StringV(v) == [kind |-> "string", items |-> <<v>>]
ArrayV(vs) == [kind |-> "array", items |-> vs]
UndefinedV == [kind |-> "undefined", items |-> <<>>]

\* Array.isArray(value) ? value.join(", ") : value
StringValue(value) ==
    IF value.kind = "array" THEN Join(value.items, <<", ">>)
    ELSE IF value.kind = "string" THEN value.items[1]
    ELSE Undefined

\* a header map argument: undefined, or an object with its entries
UndefinedMap == [defined |-> FALSE, entries |-> <<>>]
Map(entries) == [defined |-> TRUE, entries |-> entries]
\* the own keys of a header map argument (none when it is undefined)
Keys(m) == IF m.defined THEN DOMAIN m.entries ELSE {}

\* a slip: the passthrough headers are checked against the tool allow-set
PassthroughPass_ToolSet(pass, cfg) ==
    LET admitted == {k \in Keys(pass) :
                        /\ ToLowerCase(k) \in cfg.allowedToolHeaderNames
                        /\ StringValue(pass.entries[k]) # Undefined}
    IN  [k \in admitted |-> StringValue(pass.entries[k])]

\* the first loop: the passthrough headers whose lowercased name is allowed and
\* whose value is not undefined, under their own keys
PassthroughPass(pass, cfg) ==
    LET admitted == {k \in Keys(pass) :
                        /\ ToLowerCase(k) \in cfg.allowedPassthroughHeaderNames
                        /\ StringValue(pass.entries[k]) # Undefined}
    IN  [k \in admitted |-> StringValue(pass.entries[k])]

\* a slip: every tool header is assigned, allowed or not
ToolPass_NoFilter(filtered, tool, cfg) ==
    [k \in (DOMAIN filtered) \cup Keys(tool) |->
        IF k \in Keys(tool) THEN tool.entries[k] ELSE filtered[k]]

\* the second loop: the tool headers whose lowercased name is allowed are
\* assigned under their own keys, over what the first loop left there
ToolPass(filtered, tool, cfg) ==
    LET admitted == {k \in Keys(tool) :
                        ToLowerCase(k) \in cfg.allowedToolHeaderNames}
    IN  [k \in (DOMAIN filtered) \cup admitted |->
            IF k \in admitted THEN tool.entries[k] ELSE filtered[k]]

mergeAndFilterHeaders(tool, pass, cfg) ==
    ToolPass(PassthroughPass(pass, cfg), tool, cfg)

\* the tool header arguments: z.record(z.string()).optional()
ToolKeys == {Accept, accept, Auth, XId}
ToolHeaderArgs ==
    {UndefinedMap} \cup
    {Map([k \in ks |-> <<"t">>]) : ks \in SUBSET ToolKeys}

\* the headers of the inbound HTTP request (Node spells their names lowercase)
PassKeys == {accept, auth}
PassValues == {StringV(<<"p">>), ArrayV(<<(<<"p">>), (<<"q">>)>>), UndefinedV}
PassHeaderArgs ==
    {UndefinedMap} \cup
    UNION {{Map(f) : f \in [ks -> PassValues]} : ks \in SUBSET PassKeys}

----------------------------------------------------------------------------
(* Bytes and text *)

\* the bytes a response body is made of here, in hexadecimal
Bytes == {"41", "C3", "A9", "FF"}
\* UTF-8 continuation bytes (0x80..0xBF) among the bytes that occur
ContinuationBytes == {"A9", "BF", "BD"}

\* the well-formed UTF-8 sequences over the bytes that occur, and their characters
Utf8Table ==
    { <<(<<"41">>), "A">>,
      <<(<<"C3","A9">>), "U+00E9">>, <<(<<"C3","BD">>), "U+00FD">>,
      <<(<<"C3","BF">>), "U+00FF">>,
      <<(<<"EF","A9","A9">>), "U+FA69">>, <<(<<"EF","A9","BD">>), "U+FA7D">>,
      <<(<<"EF","A9","BF">>), "U+FA7F">>,
      <<(<<"EF","BD","A9">>), "U+FF69">>, <<(<<"EF","BD","BD">>), "U+FF7D">>,
      <<(<<"EF","BD","BF">>), "U+FF7F">>,
      <<(<<"EF","BF","A9">>), "U+FFE9">>, <<(<<"EF","BF","BD">>), "U+FFFD">>,
      <<(<<"EF","BF","BF">>), "U+FFFF">> }
CharOf(bytes) == (CHOOSE e \in Utf8Table : e[1] = bytes)[2]
BytesOf(char) == (CHOOSE e \in Utf8Table : e[2] = char)[1]
\* U+FFFD, which a decoder puts in place of bytes that are not UTF-8
ReplacementChar == "U+FFFD"

\* the continuation bytes the lead byte b asks for
TrailLength(b) == IF b = "C3" THEN 1 ELSE IF b = "EF" THEN 2 ELSE 0
\* how many of those follow at the head of bs
RECURSIVE TrailPresent(_, _)
TrailPresent(bs, n) ==
    IF n = 0 \/ bs = <<>> \/ Head(bs) \notin ContinuationBytes THEN 0
    ELSE 1 + TrailPresent(Tail(bs), n - 1)

RECURSIVE Utf8Decode(_)
\* TextDecoder("utf-8").decode / response.text(): a well-formed sequence gives
\* its character; a byte that starts none, or a sequence cut short, gives U+FFFD
Utf8Decode(bs) ==
    IF bs = <<>> THEN <<>>
    ELSE LET b    == Head(bs)
             have == TrailPresent(Tail(bs), TrailLength(b))
         IN  IF b = "41" \/ (TrailLength(b) > 0 /\ have = TrailLength(b))
             THEN <<CharOf(SubSeq(bs, 1, 1 + have))>>
                      \o Utf8Decode(SubSeq(bs, 2 + have, Len(bs)))
             ELSE <<ReplacementChar>> \o Utf8Decode(SubSeq(bs, 2 + have, Len(bs)))

RECURSIVE Utf8Encode(_)
\* TextEncoder.encode
Utf8Encode(chars) ==
    IF chars = <<>> THEN <<>>
    ELSE BytesOf(Head(chars)) \o Utf8Encode(Tail(chars))

Min(a, b) == IF a <= b THEN a ELSE b

\* buffer.byteLength, bytes.length
ByteLength(b) == b.run + Len(b.rest)
\* slice(0, n), for n >= 0
Slice(b, n) ==
    IF n <= b.run THEN Str(b.enc, n, <<>>)
    ELSE Str(b.enc, b.run, SubSeq(b.rest, 1, Min(n - b.run, Len(b.rest))))

\* response.text(): the body decoded as UTF-8 (ASCII decodes to itself)
ResponseText(body) == Str("text", body.run, Utf8Decode(body.rest))
\* new TextEncoder().encode(text)
Encode(text) == Str("bytes", text.run, Utf8Encode(text.rest))
\* new TextDecoder().decode(bytes)
Decode(bytes) == Str("text", bytes.run, Utf8Decode(bytes.rest))
\* Buffer.from(buffer).toString("base64"): injective, kept as the bytes it encodes
Base64(bytes) == Str("base64", bytes.run, bytes.rest)
\* s + suffix, for a suffix given by its tokens
Concat(s, suffix) == Str(s.enc, s.run, s.rest \o suffix)

\* a body of run ASCII bytes followed by the bytes of tail
Body(run, tail) == Str("bytes", run, tail)

----------------------------------------------------------------------------
(* performFetch: the pure parts *)

\* declared media types: "text/plain", "application/json", "image/png",
\* "application/pdf", "image/svg+xml", "application/octet-stream", and none
TextPlain   == <<"text/", "plain">>
AppJson     == <<"application/", "json">>
ImagePng    == <<"image/", "png">>
AppPdf      == <<"application/pdf">>
ImageSvg    == <<"image/", "svg+", "xml">>
OctetStream == <<"application/", "octet-stream">>
\* header values with a suffix or a parameter: "application/pdf+xml",
\* "application/octet-stream; name=a.json", "text/html; charset=utf-8"
PdfXml      == <<"application/pdf", "+", "xml">>
OctetNamed  == <<"application/", "octet-stream", ";", " name=a.", "json">>
HtmlCharset == <<"text/", "html", ";", " charset=utf-8">>
\* response.headers.get("content-type") || "" when the header is absent
NoContentType == <<>>

\* a slip: application/pdf is not looked for
isImage_NoPdf(contentType) ==
    StartsWith(contentType, <<"image/">>)

isImage(contentType) ==
    StartsWith(contentType, <<"image/">>) \/ StartsWith(contentType, <<"application/pdf">>)
isText(contentType) ==
    \/ StartsWith(contentType, <<"text/">>)
    \/ Includes(contentType, <<"json">>)
    \/ Includes(contentType, <<"xml">>)
\* the branch taken at `if (isImage || !isText)`
BinaryPath(contentType) == isImage(contentType) \/ ~isText(contentType)

maxBytes(cfg) == cfg.fetchMaxResponseSize * BytesPerKB
TruncationMarker(cfg) ==
    <<"\n(... truncated after ", ToString(cfg.fetchMaxResponseSize), "KB)">>

\* binary path: `truncated` and the data of the image part
BinaryTruncated(buffer, cfg) == ByteLength(buffer) > maxBytes(cfg)
BinaryData(buffer, cfg) ==
    IF BinaryTruncated(buffer, cfg)
    THEN Concat(Base64(Slice(buffer, maxBytes(cfg))), TruncationMarker(cfg))
    ELSE Base64(buffer)

\* text path: sizeBytes, `truncated` and responseData
SizeBytes(body) == ByteLength(Encode(ResponseText(body)))
TextTruncated(body, cfg) == SizeBytes(body) > maxBytes(cfg)
TextData(body, cfg) ==
    IF TextTruncated(body, cfg)
    THEN Concat(Decode(Slice(Encode(ResponseText(body)), maxBytes(cfg))),
                TruncationMarker(cfg))
    ELSE ResponseText(body)

\* the result built on each path
BinaryResult(url, at, resp, body, cfg) ==
    SuccessResult(url, at, resp.status,
        ImagePart(BinaryData(body, cfg),
                  IF resp.contentType = <<>> THEN OctetStream ELSE resp.contentType))
TextResult(url, at, resp, body, cfg) ==
    SuccessResult(url, at, resp.status,
        TextPart(TextData(body, cfg),
                 IF resp.contentType = <<>> THEN TextPlain ELSE resp.contentType))

\* the bytes logged on each path
BinaryLoggedSize(body) == ByteLength(body)
TextLoggedSize(body) == SizeBytes(body)

\* a slip: the timeout is looked for under the name AbortSignal.timeout() gives
FetchErrorText_TimeoutError(errorName, cause, cfg) ==
    IF errorName = "TimeoutError"
    THEN Text(<<"Request timeout after ", ToString(cfg.fetchTimeout), "s">>)
    ELSE Text(<<"Failed to fetch URL: ">> \o cause)

\* a slip: the cause is left out of the message
FailedText_NoCause(cause) == Text(<<"Failed to fetch URL">>)

TimeoutText(cfg) ==
    Text(<<"Request timeout after ", ToString(cfg.fetchTimeout), "s">>)
FailedText(cause) == Text(<<"Failed to fetch URL: ">> \o cause)
\* the message of the inner catch block, by the name of the error caught
FetchErrorText(errorName, cause, cfg) ==
    IF errorName = "AbortError" THEN TimeoutText(cfg) ELSE FailedText(cause)

\* a slip: the status and the size change places
LogEntry_Swapped(url, method, statusCode, responseSize, at) ==
    [url |-> url, method |-> method, statusCode |-> responseSize,
     responseSize |-> statusCode, timestamp |-> at, clientIp |-> "-"]

\* the line logRequest writes, by its fields
LogEntry(url, method, statusCode, responseSize, at) ==
    [url |-> url, method |-> method, statusCode |-> statusCode,
     responseSize |-> responseSize, timestamp |-> at, clientIp |-> "-"]

\* the delay given to setTimeout, in milliseconds
TimerDelay(cfg) == cfg.fetchTimeout * MsPerSecond

----------------------------------------------------------------------------
(* The state *)

NoRequest == [secretHeader |-> [present |-> FALSE, value |-> <<>>], bodyParses |-> TRUE]
NoHttpRes == [status |-> 0, body |-> "none"]
NoArgs == [url |-> <<>>, method |-> <<>>]
NoHeaders == [k \in {} |-> <<>>]
NoCall == [issued |-> FALSE, url |-> <<>>, method |-> <<>>, headers |-> NoHeaders,
           aborted |-> FALSE]
NoTimer == [state |-> "unset", deadline |-> 0]
NoResponse == [status |-> 0, contentType |-> <<>>, body |-> NoStr]

InitWith(configs) ==
    /\ config \in configs
    /\ now = 0
    /\ pc = "listening"
    /\ req = NoRequest
    /\ httpRes = NoHttpRes
    /\ args = NoArgs
    /\ toolHeaders = UndefinedMap
    /\ passHeaders = UndefinedMap
    /\ filteredHeaders = NoHeaders
    /\ entered = {}
    /\ netCall = NoCall
    /\ timer = NoTimer
    /\ fetchState = "none"
    /\ response = NoResponse
    /\ retrievedAt = 0
    /\ concludedAt = 0
    /\ logged = <<>>
    /\ result = NoResult

----------------------------------------------------------------------------
(* Express: express.json(), the secret middleware, the /mcp route *)

\* an HTTP request arrives: its X-WebFetchMcp-Secret header, and whether its
\* body is JSON that parses
Receive(secretHeader, bodyParses) ==
    /\ pc = "listening"
    /\ req' = [secretHeader |-> secretHeader, bodyParses |-> bodyParses]
    /\ pc' = "json"
    /\ UNCHANGED <<config, now, httpRes, args, toolHeaders, passHeaders,
                   filteredHeaders, entered, netCall, timer, fetchState, response,
                   retrievedAt, concludedAt, logged, result>>

\* app.use(express.json()): the first middleware. A body that does not parse
\* ends the request with 400 (the error goes to Express's error handler, which
\* skips the middlewares after it); otherwise next()
JsonParser ==
    /\ pc = "json"
    /\ IF req.bodyParses
       THEN pc' = "secret" /\ UNCHANGED httpRes
       ELSE pc' = "done" /\ httpRes' = [status |-> 400, body |-> "parse error"]
    /\ UNCHANGED <<config, now, req, args, toolHeaders, passHeaders,
                   filteredHeaders, entered, netCall, timer, fetchState, response,
                   retrievedAt, concludedAt, logged, result>>

\* providedSecret !== config.secret
SecretMismatch(secretHeader, cfg) ==
    ~secretHeader.present \/ secretHeader.value # cfg.secret

\* the secret validation middleware
SecretMiddleware ==
    /\ pc = "secret"
    /\ IF SecretMismatch(req.secretHeader, config)
       THEN pc' = "done" /\ httpRes' = [status |-> 401, body |-> "jsonrpc error"]
       ELSE pc' = "route" /\ UNCHANGED httpRes
    /\ UNCHANGED <<config, now, req, args, toolHeaders, passHeaders,
                   filteredHeaders, entered, netCall, timer, fetchState, response,
                   retrievedAt, concludedAt, logged, result>>

----------------------------------------------------------------------------
(* The web_fetch handler *)

\* method = "GET" in the handler's parameter list
MethodOrDefault(method) == IF method = Undefined THEN GET ELSE method

\* app.post("/mcp") hands the request to the transport, which calls the handler
\* with the tool arguments; the handler calls validateRequest
HandlerValidate(url, method) ==
    /\ pc = "route"
    /\ args' = [url |-> url, method |-> MethodOrDefault(method)]
    /\ entered' = entered \cup {"validateRequest"}
    /\ LET validationError == validateRequest(url, MethodOrDefault(method), config, now)
       IN  IF validationError # <<>>
           THEN /\ result' = validationError[1]
                /\ retrievedAt' = now
                /\ concludedAt' = now
                /\ pc' = "returned"
           ELSE /\ pc' = "merge"
                /\ UNCHANGED <<result, retrievedAt, concludedAt>>
    /\ UNCHANGED <<config, now, req, httpRes, toolHeaders, passHeaders,
                   filteredHeaders, netCall, timer, fetchState, response, logged>>

\* the handler calls mergeAndFilterHeaders(headers, extra.requestInfo?.headers, config)
HandlerMerge(tool, pass) ==
    /\ pc = "merge"
    /\ toolHeaders' = tool
    /\ passHeaders' = pass
    /\ entered' = entered \cup {"mergeAndFilterHeaders"}
    /\ filteredHeaders' = mergeAndFilterHeaders(tool, pass, config)
    /\ pc' = "fetch"
    /\ UNCHANGED <<config, now, req, httpRes, args, netCall, timer, fetchState,
                   response, retrievedAt, concludedAt, logged, result>>

----------------------------------------------------------------------------
(* performFetch *)

\* performFetch up to `await fetch(...)`: retrievedAt is taken, the timer is
\* set, the network call is issued with the uppercased method
PerformFetchStart ==
    /\ pc = "fetch"
    /\ entered' = entered \cup {"performFetch"}
    /\ retrievedAt' = now
    /\ timer' = [state |-> "armed", deadline |-> now + TimerDelay(config)]
    /\ netCall' = [issued |-> TRUE, url |-> args.url,
                   method |-> ToUpperCase(args.method),
                   headers |-> filteredHeaders, aborted |-> FALSE]
    /\ fetchState' = "pending"
    /\ pc' = "awaitFetch"
    /\ UNCHANGED <<config, now, req, httpRes, args, toolHeaders, passHeaders,
                   filteredHeaders, response, concludedAt, logged, result>>

\* time passes while the handler awaits the network; the event loop runs a
\* timer that is due before it waits any longer
Tick ==
    /\ pc \in {"awaitFetch", "awaitBody"}
    /\ ~(timer.state = "armed" /\ now >= timer.deadline)
    /\ now < MaxClock * MsPerSecond
    /\ now' = now + MsPerSecond
    /\ UNCHANGED <<config, pc, req, httpRes, args, toolHeaders, passHeaders,
                   filteredHeaders, entered, netCall, timer, fetchState, response,
                   retrievedAt, concludedAt, logged, result>>

\* a slip: the catch block does not log
InnerCatch_NoLog(errorName, cause, timerAtCatch) ==
    /\ timer' = [timerAtCatch EXCEPT !.state = IF @ = "armed" THEN "cleared" ELSE @]
    /\ logged' = logged
    /\ result' = ErrorResult(args.url, retrievedAt,
                             FetchErrorText(errorName, cause, config))
    /\ concludedAt' = now
    /\ pc' = "returned"

\* the message of the TypeError new URL(url) throws in logRequest
InvalidUrl == <<"Invalid URL">>

\* the outer catch block, entered with the error thrown by the inner one:
\* logRequest(url, method, -1, 0) and the "Error: ..." result; when logRequest
\* throws here too, nothing catches it and performFetch rejects
OuterCatch(cause) ==
    /\ concludedAt' = now
    /\ IF UrlParses(args.url)
       THEN /\ logged' = Append(logged, LogEntry(args.url, args.method, -1, 0, now))
            /\ result' = ErrorResult(args.url, retrievedAt, Text(<<"Error: ">> \o cause))
            /\ pc' = "returned"
       ELSE /\ UNCHANGED <<logged, result>>
            /\ pc' = "thrown"

\* the inner catch block: clearTimeout, logRequest(url, upperMethod, -1, 0), and
\* the error result; when logRequest throws, the outer catch block runs
InnerCatch(errorName, cause, timerAtCatch) ==
    /\ timer' = [timerAtCatch EXCEPT !.state = IF @ = "armed" THEN "cleared" ELSE @]
    /\ IF UrlParses(args.url)
       THEN /\ logged' = Append(logged,
                            LogEntry(args.url, ToUpperCase(args.method), -1, 0, now))
            /\ result' = ErrorResult(args.url, retrievedAt,
                                     FetchErrorText(errorName, cause, config))
            /\ concludedAt' = now
            /\ pc' = "returned"
       ELSE OuterCatch(InvalidUrl)

\* the timer set by setTimeout fires while fetch() is pending: controller.abort()
\* cancels the call, fetch() rejects with an AbortError, the catch block runs
TimerFires ==
    /\ pc = "awaitFetch"
    /\ UrlParses(netCall.url)
    /\ timer.state = "armed"
    /\ now >= timer.deadline
    /\ netCall' = [netCall EXCEPT !.aborted = TRUE]
    /\ fetchState' = "rejected"
    /\ InnerCatch("AbortError", <<"This operation was aborted">>,
                  [timer EXCEPT !.state = "fired"])
    /\ UNCHANGED <<config, now, req, httpRes, args, toolHeaders, passHeaders,
                   filteredHeaders, entered, response, retrievedAt>>

\* fetch() rejects for a reason of the network (DNS, connection refused, TLS)
FetchRejects(cause) ==
    /\ pc = "awaitFetch"
    /\ fetchState' = "rejected"
    /\ InnerCatch("TypeError", cause, timer)
    /\ UNCHANGED <<config, now, req, httpRes, args, toolHeaders, passHeaders,
                   filteredHeaders, entered, netCall, response, retrievedAt>>

\* a slip: the timer is left armed when the response is in
FetchResolves_NoClear(status, contentType) ==
    /\ pc = "awaitFetch"
    /\ UrlParses(netCall.url)
    /\ fetchState' = "resolved"
    /\ response' = [status |-> status, contentType |-> contentType, body |-> NoStr]
    /\ pc' = "awaitBody"
    /\ UNCHANGED <<config, now, req, httpRes, args, toolHeaders, passHeaders,
                   filteredHeaders, entered, netCall, timer, retrievedAt, concludedAt,
                   logged, result>>

\* (a string that is no URL is refused by fetch() at once: no response, no timer)
\* fetch() resolves with the response's status and headers: clearTimeout, the
\* content type is read, and the body read starts (arrayBuffer() or text())
FetchResolves(status, contentType) ==
    /\ pc = "awaitFetch"
    /\ UrlParses(netCall.url)
    /\ fetchState' = "resolved"
    /\ timer' = [timer EXCEPT !.state = "cleared"]
    /\ response' = [status |-> status, contentType |-> contentType, body |-> NoStr]
    /\ pc' = "awaitBody"
    /\ UNCHANGED <<config, now, req, httpRes, args, toolHeaders, passHeaders,
                   filteredHeaders, entered, netCall, retrievedAt, concludedAt,
                   logged, result>>

\* the body read resolves with the whole body: truncation, logRequest with the
\* response's status, and the result, on the binary or on the text path
BodyResolves(body) ==
    /\ pc = "awaitBody"
    /\ response' = [response EXCEPT !.body = body]
    /\ IF BinaryPath(response.contentType)
       THEN /\ logged' = Append(logged,
                            LogEntry(args.url, ToUpperCase(args.method),
                                     response.status, BinaryLoggedSize(body), now))
            /\ result' = BinaryResult(args.url, retrievedAt, response, body, config)
       ELSE /\ logged' = Append(logged,
                            LogEntry(args.url, ToUpperCase(args.method),
                                     response.status, TextLoggedSize(body), now))
            /\ result' = TextResult(args.url, retrievedAt, response, body, config)
    /\ concludedAt' = now
    /\ pc' = "returned"
    /\ UNCHANGED <<config, now, req, httpRes, args, toolHeaders, passHeaders,
                   filteredHeaders, entered, netCall, timer, fetchState, retrievedAt>>

\* the body read rejects (the connection breaks while the body is sent): the
\* await is inside the inner try, so the inner catch block runs
BodyRejects(cause) ==
    /\ pc = "awaitBody"
    /\ InnerCatch("TypeError", cause, timer)
    /\ UNCHANGED <<config, now, req, httpRes, args, toolHeaders, passHeaders,
                   filteredHeaders, entered, netCall, fetchState, response,
                   retrievedAt>>

\* the handler's result goes back to the caller in the HTTP response
Respond ==
    /\ pc = "returned"
    /\ httpRes' = [status |-> 200, body |-> "tool result"]
    /\ pc' = "done"
    /\ UNCHANGED <<config, now, req, args, toolHeaders, passHeaders,
                   filteredHeaders, entered, netCall, timer, fetchState, response,
                   retrievedAt, concludedAt, logged, result>>

----------------------------------------------------------------------------
(* The inputs explored, and the specifications *)

Statuses == {200, 404}
ContentTypes == {TextPlain, AppJson, ImagePng, AppPdf, ImageSvg, OctetStream,
                 NoContentType}
\* fetchError.message: undici's message when the call fails, and when the body
\* read breaks off
Causes == {<<"fetch failed">>, <<"terminated">>}

\* the byte sequences of at most MaxTail bytes
Tails == UNION {[1..n -> Bytes] : n \in 0..MaxTail}
\* bodies around the cap: a run of ASCII bytes, then a tail; and a body longer
\* than the cap by more than a chunk
Bodies(cfg) ==
    {Body(run, tail) :
        run \in {0} \cup ((maxBytes(cfg) - MaxTail)..(maxBytes(cfg) + 1)),
        tail \in Tails}
    \cup {Body(maxBytes(cfg) + MaxChunk + 1, <<>>)}
\* an empty body, and ASCII bodies one byte under, at and one byte over the cap
PlainBodies(cfg) ==
    {Body(run, <<>>) : run \in {0} \cup ((maxBytes(cfg) - 1)..(maxBytes(cfg) + 1))}

\* the steps the pipeline takes by itself, and the network's failures
Internal ==
    \/ JsonParser
    \/ SecretMiddleware
    \/ PerformFetchStart
    \/ Tick
    \/ TimerFires
    \/ \E cause \in Causes : FetchRejects(cause)
    \/ \E cause \in Causes : BodyRejects(cause)
    \/ Respond

\* every credential, URL and method, with plain headers and bodies
Init == InitWith(Configs)
Next ==
    \/ \E h \in SecretHeaders, ok \in BOOLEAN : Receive(h, ok)
    \/ \E url \in Urls, method \in MethodArgs : HandlerValidate(url, method)
    \/ \E tool \in {UndefinedMap, Map([k \in {Accept, XId} |-> <<"t">>])},
          pass \in {UndefinedMap, Map([k \in {accept} |-> StringV(<<"p">>)])} :
            HandlerMerge(tool, pass)
    \/ \E status \in Statuses, contentType \in {TextPlain, ImagePng} :
            FetchResolves(status, contentType)
    \/ \E body \in PlainBodies(config) : BodyResolves(body)
    \/ Internal
Spec == Init /\ [][Next]_vars

\* every header map, for an authenticated request with an allowed URL and method
HeaderConfigs ==
    {[DefaultConfig EXCEPT !.allowedToolHeaderNames = t,
                           !.allowedPassthroughHeaderNames = p] :
        t \in HeaderSets, p \in HeaderSets}
InitHeaders == InitWith(HeaderConfigs)
NextHeaders ==
    \/ \E ok \in BOOLEAN : Receive([present |-> TRUE, value |-> Secret], ok)
    \/ \E method \in {GET, Undefined} : HandlerValidate(UrlA, method)
    \/ \E tool \in ToolHeaderArgs, pass \in PassHeaderArgs : HandlerMerge(tool, pass)
    \/ FetchResolves(200, TextPlain)
    \/ BodyResolves(Body(0, <<>>))
    \/ Internal
SpecHeaders == InitHeaders /\ [][NextHeaders]_vars

\* every body and content type, for an authenticated request with an allowed
\* URL and method
SizeConfigs ==
    {[DefaultConfig EXCEPT !.fetchMaxResponseSize = k] : k \in {1, 2}}
InitBodies == InitWith(SizeConfigs)
NextBodies ==
    \/ \E ok \in BOOLEAN : Receive([present |-> TRUE, value |-> Secret], ok)
    \/ HandlerValidate(UrlA, GET)
    \/ HandlerMerge(UndefinedMap, UndefinedMap)
    \/ \E status \in Statuses, contentType \in ContentTypes :
            FetchResolves(status, contentType)
    \/ \E body \in Bodies(config) : BodyResolves(body)
    \/ Internal
SpecBodies == InitBodies /\ [][NextBodies]_vars

\* every declared content type, for an authenticated request with an allowed
\* URL and method
ParameterTypes == {PdfXml, OctetNamed, HtmlCharset}
InitTypes == InitWith(SizeConfigs)
NextTypes ==
    \/ \E ok \in BOOLEAN : Receive([present |-> TRUE, value |-> Secret], ok)
    \/ HandlerValidate(UrlA, GET)
    \/ HandlerMerge(UndefinedMap, UndefinedMap)
    \/ \E status \in Statuses, contentType \in ContentTypes \cup ParameterTypes :
            FetchResolves(status, contentType)
    \/ \E body \in PlainBodies(config) : BodyResolves(body)
    \/ Internal
SpecTypes == InitTypes /\ [][NextTypes]_vars

\* performFetch is exported: a caller other than the handler calls it with the
\* url, method and headers of its choice
DirectCall(url, method, headers) ==
    /\ pc = "listening"
    /\ args' = [url |-> url, method |-> method]
    /\ filteredHeaders' = headers
    /\ pc' = "fetch"
    /\ UNCHANGED <<config, now, req, httpRes, toolHeaders, passHeaders, entered,
                   netCall, timer, fetchState, response, retrievedAt, concludedAt,
                   logged, result>>

\* the message of the TypeError fetch() rejects with for a string that is no URL
FailedToParse == <<"Failed to parse URL">>

\* performFetch called directly, with strings that are URLs and strings that
\* are not
TimeoutConfigs ==
    {[DefaultConfig EXCEPT !.fetchTimeout = s, !.fetchMaxResponseSize = k] :
        s \in {1, 2}, k \in {1, 2}}
InitDirect == InitWith(TimeoutConfigs)
NextDirect ==
    \/ \E url \in {UrlA, UrlB, NotAUrl, RelativeUrl},
          method \in {GET, <<"g","e","t">>, POST},
          headers \in {NoHeaders, [k \in {Accept} |-> <<"t">>]} :
            DirectCall(url, method, headers)
    \/ PerformFetchStart
    \/ Tick
    \/ TimerFires
    \/ \E cause \in Causes : UrlParses(args.url) /\ FetchRejects(cause)
    \/ ~UrlParses(args.url) /\ FetchRejects(FailedToParse)
    \/ \E status \in Statuses, contentType \in {TextPlain, ImagePng} :
            FetchResolves(status, contentType)
    \/ \E body \in PlainBodies(config) : BodyResolves(body)
    \/ \E cause \in Causes : BodyRejects(cause)
SpecDirect == InitDirect /\ [][NextDirect]_vars

----------------------------------------------------------------------------
(* Properties *)

\* the request was answered without the secret the server holds
BadSecret == ~req.secretHeader.present \/ req.secretHeader.value # config.secret
\* validateRequest has run for this request
Validated == "validateRequest" \in entered
\* mergeAndFilterHeaders has run for this request
Merged == "mergeAndFilterHeaders" \in entered
\* the handler has returned a result
Returned == pc \in {"returned", "done"} /\ result # NoResult
\* the tokens of the message of an error result
Message == IF Len(result.content) > 0 THEN result.content[1].text.rest ELSE <<>>
UrlMatches == RegexTest(config.allowedUrlRegex, args.url)
MethodAllowed == ToUpperCase(args.method) \in Range(config.allowedMethods)
\* what follows the first occurrence of the token tok in s
After(s, tok) ==
    IF Includes(s, <<tok>>)
    THEN SubSeq(s, 1 + CHOOSE i \in Occurrences(s, <<tok>>) :
                        \A j \in Occurrences(s, <<tok>>) : i <= j, Len(s))
    ELSE <<>>

\* C1: every request whose X-WebFetchMcp-Secret header is missing or differs
\* from config.secret is answered with 401 and the JSON error body, and none of
\* validateRequest, mergeAndFilterHeaders, performFetch is entered nor the
\* target contacted.
C1_BadSecretIs401 ==
    (pc = "done" /\ BadSecret) =>
        /\ httpRes = [status |-> 401, body |-> "jsonrpc error"]
        /\ entered = {}
        /\ ~netCall.issued

\* C1, the part the code keeps: no tool logic runs for such a request
C1_NoToolLogic ==
    (pc # "listening" /\ BadSecret) => (entered = {} /\ ~netCall.issued)

\* C2: a network call is issued only for the request's URL and uppercased
\* method, the URL matching config.allowedUrlRegex and the method being in
\* config.allowedMethods; and after a rejection by validateRequest no network
\* call is issued.
C2_CallOnlyIfAllowed ==
    /\ netCall.issued =>
          /\ netCall.url = args.url
          /\ netCall.method = ToUpperCase(args.method)
          /\ RegexTest(config.allowedUrlRegex, netCall.url)
          /\ netCall.method \in Range(config.allowedMethods)
    /\ (Validated /\ ~(UrlMatches /\ MethodAllowed)) =>
          (~netCall.issued /\ "performFetch" \notin entered)
C2_Witness ==
    /\ netCall.issued
    /\ args.method = <<"p","u","t">>
    /\ args.url = UrlBqA
C2_WitnessRejected ==
    Validated /\ pc = "done" /\ UrlMatches /\ ~MethodAllowed /\ ~netCall.issued

\* C3: for a URL that does not match the allow-pattern, whatever the method,
\* the result has isError = true, statusCode = -1, and a message holding
\* "URL not allowed", the URL and the pattern's source.
C3_UrlRejection ==
    (Validated /\ ~UrlMatches) =>
        /\ Returned
        /\ result.isError
        /\ result.structuredContent.statusCode = -1
        /\ Includes(Message, <<"URL not allowed: ">>)
        /\ Includes(Message, args.url)
        /\ Includes(Message, config.allowedUrlRegex)
C3_Witness ==
    /\ Validated /\ ~UrlMatches /\ MethodAllowed
    /\ args.url = UrlBqA
    /\ pc = "done"

\* C4: for an allowed URL and a method that, uppercased, is not in the allowed
\* set, the result has isError = true, statusCode = -1, and a message holding
\* "Method not allowed" and, after it, every allowed method; a method that
\* differs from an allowed one only in letter case is not rejected.
C4_MethodRejection ==
    /\ (Validated /\ UrlMatches /\ ~MethodAllowed) =>
          /\ Returned
          /\ result.isError
          /\ result.structuredContent.statusCode = -1
          /\ Includes(Message, <<"Method not allowed: ">>)
          /\ \A m \in Range(config.allowedMethods) :
                Includes(After(Message, ". Allowed methods: "), m)
    /\ (/\ Validated /\ UrlMatches
        /\ \E m \in Range(config.allowedMethods) :
              ToLowerCase(m) = ToLowerCase(args.method)) =>
          (pc = "merge" \/ Merged)
C4_Witness ==
    /\ Validated /\ UrlMatches /\ ~MethodAllowed
    /\ config.allowedMethods = <<GET, PUT>>
    /\ args.method = POST
    /\ pc = "returned"
C4_WitnessCase ==
    /\ Merged
    /\ args.method = <<"G","e","t">>

\* C5: a request that violates both the URL allow-pattern and the method
\* allow-set is rejected for its URL, not for its method.
C5_UrlBeforeMethod ==
    (Validated /\ ~UrlMatches /\ ~MethodAllowed) =>
        /\ Returned
        /\ Includes(Message, <<"URL not allowed: ">>)
        /\ ~Includes(Message, <<"Method not allowed: ">>)
C5_Witness ==
    /\ Validated /\ ~UrlMatches /\ ~MethodAllowed
    /\ Returned
    /\ args.method = <<"p","u","t">>

\* the lowercased name of k is in one of the two allow-sets
AllowedSomewhere(k) ==
    ToLowerCase(k) \in
        config.allowedToolHeaderNames \cup config.allowedPassthroughHeaderNames
\* the error result comes from the network call, not from the handler's checks
ErrorOfTheFetch ==
    Len(Message) > 0 /\ Message[1] \in {"Request timeout after ", "Failed to fetch URL: "}

\* C6: a header, tool or passthrough, whose lowercased name is in neither
\* allow-set appears under no spelling in the map mergeAndFilterHeaders returns
\* nor in the headers of the network call, and the request goes on to
\* performFetch: an error result, if any, is an error of the network call.
C6_UnlistedHeaderDropped ==
    Merged =>
        /\ \A k \in Keys(toolHeaders) \cup Keys(passHeaders) :
              ~AllowedSomewhere(k) =>
                 \A sent \in DOMAIN filteredHeaders : ToLowerCase(sent) # ToLowerCase(k)
        /\ netCall.issued => netCall.headers = filteredHeaders
        /\ pc = "fetch" \/ "performFetch" \in entered
        /\ result.isError => ErrorOfTheFetch
C6_Witness ==
    /\ Merged
    /\ XId \in Keys(toolHeaders) /\ Auth \in Keys(toolHeaders)
    /\ auth \in Keys(passHeaders)
    /\ config.allowedToolHeaderNames = {accept}
    /\ config.allowedPassthroughHeaderNames = {accept}
    /\ netCall.issued
    /\ pc = "done" /\ ~result.isError

\* C7: when a tool header and a passthrough header have the same name up to
\* letter case, allowed in both allow-sets, and different values, every entry
\* of the merged map under that name carries the tool's value.
C7_ToolValueOnly ==
    Merged =>
        \A kt \in Keys(toolHeaders), kp \in Keys(passHeaders) :
            (/\ ToLowerCase(kt) = ToLowerCase(kp)
             /\ ToLowerCase(kt) \in config.allowedToolHeaderNames
             /\ ToLowerCase(kp) \in config.allowedPassthroughHeaderNames
             /\ StringValue(passHeaders.entries[kp]) # Undefined
             /\ StringValue(passHeaders.entries[kp]) # toolHeaders.entries[kt]) =>
                \A k \in DOMAIN filteredHeaders :
                    ToLowerCase(k) = ToLowerCase(kt) =>
                        filteredHeaders[k] = toolHeaders.entries[kt]

\* C7, the case the code keeps: the two keys are spelled the same
C7_SameSpelling ==
    Merged =>
        \A k \in Keys(toolHeaders) \cap Keys(passHeaders) :
            ToLowerCase(k) \in config.allowedToolHeaderNames =>
                filteredHeaders[k] = toolHeaders.entries[k]

\* the merged map carries the tool header k with the tool's value
ToolForwarded(k) ==
    k \in DOMAIN filteredHeaders /\ filteredHeaders[k] = toolHeaders.entries[k]
\* the merged map carries the passthrough header k with the passthrough value
PassForwarded(k) ==
    /\ k \in DOMAIN filteredHeaders
    /\ filteredHeaders[k] = StringValue(passHeaders.entries[k])
\* the passthrough headers that have a value
PassGiven == {k \in Keys(passHeaders) : passHeaders.entries[k].kind # "undefined"}

\* C8, as stated: a tool header is forwarded iff its lowercased name is in
\* allowedToolHeaderNames, and a passthrough header is forwarded iff its
\* lowercased name is in allowedPassthroughHeaderNames.
C8_OwnAllowSetOnly ==
    Merged =>
        /\ \A k \in Keys(toolHeaders) :
              ToolForwarded(k) <=> ToLowerCase(k) \in config.allowedToolHeaderNames
        /\ \A k \in PassGiven :
              PassForwarded(k) <=>
                  ToLowerCase(k) \in config.allowedPassthroughHeaderNames

\* C8, amended: a tool header is forwarded iff its lowercased name is in
\* allowedToolHeaderNames; a passthrough header is forwarded iff its lowercased
\* name is in allowedPassthroughHeaderNames and no admitted tool header has the
\* very same key (that one overwrites it).
C8_OwnAllowSetUnlessOverwritten ==
    Merged =>
        /\ \A k \in Keys(toolHeaders) :
              ToolForwarded(k) <=> ToLowerCase(k) \in config.allowedToolHeaderNames
        /\ \A k \in PassGiven :
              PassForwarded(k) <=>
                  /\ ToLowerCase(k) \in config.allowedPassthroughHeaderNames
                  /\ ~(/\ k \in Keys(toolHeaders)
                       /\ ToLowerCase(k) \in config.allowedToolHeaderNames)
C8_Witness ==
    /\ Merged
    /\ config.allowedToolHeaderNames = {accept}
    /\ config.allowedPassthroughHeaderNames = {auth}
    /\ Keys(toolHeaders) = {Accept, Auth}
    /\ Keys(passHeaders) = {accept, auth}
    /\ passHeaders.entries[accept].kind = "string"
    /\ passHeaders.entries[auth].kind = "array"
    /\ DOMAIN filteredHeaders = {Accept, auth}

\* a fetch that got a response has returned its result
Succeeded == pc \in {"returned", "done"} /\ fetchState = "resolved" /\ ~result.isError
\* the cap, and the marker of a truncated payload
Cap == config.fetchMaxResponseSize * BytesPerKB
Marker == <<"\n(... truncated after ", ToString(config.fetchMaxResponseSize), "KB)">>

\* C9: on both paths, a body of at most maxBytes bytes is returned as it is,
\* without marker; a longer one is cut to its first maxBytes bytes and the
\* marker is appended (to the decoded text, to the base64 string).
C9_TruncationBoundary ==
    Succeeded =>
        LET body == response.body
            part == result.content[1]
        IN  IF part.type = "image"
            THEN part.data =
                    IF ByteLength(body) <= Cap
                    THEN Base64(body)
                    ELSE Concat(Base64(Slice(body, Cap)), Marker)
            ELSE part.text =
                    IF ByteLength(body) <= Cap
                    THEN Decode(body)
                    ELSE Concat(Decode(Slice(body, Cap)), Marker)

\* the body is well-formed UTF-8
WellFormed(body) == Utf8Encode(Utf8Decode(body.rest)) = body.rest

\* C9, the cases the code keeps: the binary path, and on the text path the
\* bodies that are well-formed UTF-8
C9_BoundaryOfBinaryAndWellFormed ==
    (Succeeded /\ (result.content[1].type = "image" \/ WellFormed(response.body))) =>
        LET body == response.body
            part == result.content[1]
        IN  IF part.type = "image"
            THEN part.data =
                    IF ByteLength(body) <= Cap
                    THEN Base64(body)
                    ELSE Concat(Base64(Slice(body, Cap)), Marker)
            ELSE part.text =
                    IF ByteLength(body) <= Cap
                    THEN Decode(body)
                    ELSE Concat(Decode(Slice(body, Cap)), Marker)

\* C10: the pending network call does not outlast the timer; when the timer
\* fires, config.fetchTimeout seconds after it was set, the call is cancelled
\* and performFetch returns statusCode -1, isError true and the message
\* "Request timeout after <fetchTimeout>s".
C10_TimeoutResult ==
    /\ pc = "awaitFetch" => now <= retrievedAt + config.fetchTimeout * MsPerSecond
    /\ timer.state = "fired" =>
          /\ concludedAt = retrievedAt + config.fetchTimeout * MsPerSecond
          /\ netCall.aborted
          /\ Returned
          /\ result.structuredContent.statusCode = -1
          /\ result.isError
          /\ Message = <<"Request timeout after ", ToString(config.fetchTimeout), "s">>
C10_Witness ==
    /\ timer.state = "fired"
    /\ config.fetchTimeout = 2
    /\ pc = "done"

\* the network call failed for a reason of the network, not by the timer
NetworkFailed ==
    /\ pc \in {"returned", "done"}
    /\ \/ fetchState = "rejected" /\ ~netCall.aborted
       \/ fetchState = "resolved" /\ response.body = NoStr

\* C11: on a failure of the network other than a timeout (the call is refused,
\* or breaks off while the body is read), performFetch returns statusCode -1,
\* isError true and the message "Failed to fetch URL: <cause>".
C11_NetworkFailureResult ==
    NetworkFailed =>
        /\ result.structuredContent.statusCode = -1
        /\ result.isError
        /\ Len(result.content) = 1
        /\ \E cause \in Causes : Message = <<"Failed to fetch URL: ">> \o cause
C11_Witness ==
    /\ pc = "done"
    /\ fetchState = "rejected"
    /\ ~netCall.aborted
    /\ Message = <<"Failed to fetch URL: ", "fetch failed">>

\* fetch() resolved: the status line and the headers of a response came in
ResponseReceived == fetchState = "resolved"
\* the body read resolved: the body came in to its end
BodyRead == response.body # NoStr

\* C12, as stated: whenever a response is received, whatever its status, the
\* result carries the status of the response and no error flag.
C12_ResponseIsSuccess ==
    (Returned /\ ResponseReceived) =>
        /\ result.structuredContent.statusCode = response.status
        /\ ~result.isError

\* C12, amended: a response whose body is read to its end gives a result with
\* the status of the response and no error flag, whatever the status; a
\* response whose body read fails gives the error result with -1.
C12_ReadResponseIsSuccess ==
    (Returned /\ ResponseReceived) =>
        IF BodyRead
        THEN /\ result.structuredContent.statusCode = response.status
             /\ ~result.isError
        ELSE /\ result.structuredContent.statusCode = -1
             /\ result.isError
C12_Witness ==
    /\ pc = "done"
    /\ ResponseReceived
    /\ BodyRead
    /\ response.status = 404
    /\ result.structuredContent.statusCode = 404
    /\ ~result.isError

\* C13, as stated: a result carries -1 exactly when no response was received,
\* and -1 comes with isError.
C13_SentinelIffNoResponse ==
    Returned =>
        /\ result.structuredContent.statusCode = -1 <=> ~ResponseReceived
        /\ result.structuredContent.statusCode = -1 => result.isError

\* C13, amended: a result carries -1 exactly when no response was received or
\* the body of the response could not be read, and -1 comes with isError.
C13_SentinelIffNoReadResponse ==
    Returned =>
        /\ result.structuredContent.statusCode = -1 <=> ~(ResponseReceived /\ BodyRead)
        /\ result.structuredContent.statusCode = -1 => result.isError
        /\ result.structuredContent.statusCode # -1 =>
              result.structuredContent.statusCode = response.status
C13_Witness ==
    /\ pc = "done"
    /\ ResponseReceived
    /\ ~BodyRead
    /\ response.status = 200
    /\ result.structuredContent.statusCode = -1
    /\ result.isError

\* C14: a fetch that succeeded has exactly one content part, a text part on
\* the text path and an image part holding base64 data on the binary path.
C14_OnePart ==
    Succeeded =>
        /\ Len(result.content) = 1
        /\ IF BinaryPath(response.contentType)
           THEN /\ result.content[1].type = "image"
                /\ result.content[1].data.enc = "base64"
                /\ result.content[1].text = NoStr
           ELSE /\ result.content[1].type = "text"
                /\ result.content[1].text.enc = "text"
                /\ result.content[1].data = NoStr
C14_Witness ==
    /\ pc = "done"
    /\ Succeeded
    /\ Len(result.content) = 1
    /\ result.content[1].type = "image"
    /\ response.contentType = AppPdf

\* performFetch was called for this request
Fetched == "performFetch" \in entered
\* the request carried the secret the server holds
Authenticated == req.secretHeader.present /\ req.secretHeader.value = config.secret

\* C15: performFetch calls logRequest exactly once before it returns, on every
\* path: no line while the call or the body read is awaited, one line when it
\* has returned.
C15_OneLogCall ==
    Fetched =>
        IF pc \in {"returned", "done"}
        THEN Len(logged) = 1
        ELSE Len(logged) = 0
C15_Witness ==
    /\ pc = "done"
    /\ Fetched
    /\ ResponseReceived
    /\ ~BodyRead
    /\ Len(logged) = 1

\* C16: every result returned for an authenticated invocation, a rejection by
\* validateRequest included, has a line in the access log.
C16_EveryOutcomeLogged ==
    (Returned /\ Authenticated) => Len(logged) >= 1

\* C16, what the code does: a rejection by validateRequest is returned with
\* no line in the access log.
C16_RejectionNotLogged ==
    (Returned /\ ~Fetched) => logged = <<>>

\* C17: the line logged by performFetch carries the statusCode of the result
\* returned, and for a result with -1 it carries -1 and 0 bytes.
C17_LogMatchesResult ==
    (Fetched /\ Returned) =>
        /\ Len(logged) >= 1
        /\ logged[Len(logged)].statusCode = result.structuredContent.statusCode
        /\ result.structuredContent.statusCode = -1 =>
              /\ logged[Len(logged)].statusCode = -1
              /\ logged[Len(logged)].responseSize = 0
C17_Witness ==
    /\ pc = "done"
    /\ Fetched
    /\ timer.state = "fired"
    /\ result.structuredContent.statusCode = -1
    /\ logged = <<LogEntry(args.url, ToUpperCase(args.method), -1, 0, concludedAt)>>

\* the call or the body read is awaited
Pending == pc \in {"awaitFetch", "awaitBody"}

\* C18: no invocation outlives its timeout: while the call or the read of the
\* body is awaited, no more than config.fetchTimeout seconds have passed since
\* the timer was set.
C18_PendingWithinTimeout ==
    Pending => now <= retrievedAt + config.fetchTimeout * MsPerSecond

\* C18, what the code does: the timer is cleared when the headers are in, so
\* nothing ends the read of the body but the target.
C18_NoTimerWhileBodyRead ==
    pc = "awaitBody" => timer.state = "cleared" /\ ~netCall.aborted

\* the bytes arrayBuffer() or text() handed to performFetch
Held == ByteLength(response.body)

\* C19: performFetch never holds more bytes of the body than the cap and one
\* chunk.
C19_HeldWithinCap ==
    Held <= Cap + MaxChunk

\* C19, what the code does: the whole body is held, whatever its length, and
\* cut afterwards.
C19_WholeBodyHeld ==
    (Succeeded /\ Len(logged) = 1 /\ result.content[1].type = "image") =>
        Held = logged[1].responseSize

\* C20: the retrievedAt of a result is not earlier than the moment the attempt
\* concluded (the call completed, timed out or failed, or validation ended).
C20_RetrievedAtConclusion ==
    Returned => result.structuredContent.retrievedAt >= concludedAt

\* C20, what the code does: the retrievedAt of a result of performFetch is the
\* moment performFetch was entered, before the call.
C20_RetrievedAtStart ==
    (Returned /\ Fetched) =>
        /\ result.structuredContent.retrievedAt = retrievedAt
        /\ result.structuredContent.retrievedAt <= concludedAt
        /\ timer.state = "fired" =>
              result.structuredContent.retrievedAt
                  = concludedAt - config.fetchTimeout * MsPerSecond

\* the shape every result has: a content sequence that is not empty, and
\* structuredContent with url, retrievedAt and statusCode
Envelope(r) ==
    /\ Len(r.content) >= 1
    /\ {"url", "retrievedAt", "statusCode"} \subseteq DOMAIN r.structuredContent
    /\ r.structuredContent.url = args.url

\* C21: no path of performFetch ends by throwing, whatever the url, method and
\* headers; each ends by returning a result of the envelope shape.
C21_AlwaysEnvelope ==
    /\ pc # "thrown"
    /\ (pc \in {"returned", "done"} /\ entered # {}) => Envelope(result)

\* C21, what the code does: performFetch returns the envelope for every string
\* that is a URL, and throws for a string that is not, without a log line.
C21_EnvelopeIffUrlParses ==
    /\ pc = "thrown" => ~UrlParses(args.url) /\ result = NoResult /\ logged = <<>>
    /\ (pc \in {"returned", "done"} /\ entered # {}) =>
          UrlParses(args.url) /\ Envelope(result)

\* the media type of a Content-Type value: what stands before the parameters
MediaType(contentType) ==
    IF Includes(contentType, <<";">>)
    THEN SubSeq(contentType, 1,
                (CHOOSE i \in Occurrences(contentType, <<";">>) :
                    \A j \in Occurrences(contentType, <<";">>) : i <= j) - 1)
    ELSE contentType
\* the part of the result is a text part
TextPathTaken == result.content[1].type = "text"
\* the part of the result is an image part holding base64 data
BinaryPathTaken ==
    result.content[1].type = "image" /\ result.content[1].data.enc = "base64"

\* C22, as stated: the text path is taken iff the media type begins with
\* "text/" or contains "json" or "xml", does not begin with "image/" and is not
\* application/pdf; the binary path otherwise.
C22_ByMediaType ==
    Succeeded =>
        LET mt == MediaType(response.contentType)
            text == /\ \/ StartsWith(mt, <<"text/">>)
                       \/ Includes(mt, <<"json">>)
                       \/ Includes(mt, <<"xml">>)
                    /\ ~StartsWith(mt, <<"image/">>)
                    /\ mt # AppPdf
        IN  IF text THEN TextPathTaken ELSE BinaryPathTaken

\* C22, amended: the text path is taken iff the Content-Type value, parameters
\* included, begins with "text/" or contains "json" or "xml", and begins with
\* neither "image/" nor "application/pdf"; the binary path otherwise.
C22_ByHeaderValue ==
    Succeeded =>
        LET ct == response.contentType
            text == /\ \/ StartsWith(ct, <<"text/">>)
                       \/ Includes(ct, <<"json">>)
                       \/ Includes(ct, <<"xml">>)
                    /\ ~StartsWith(ct, <<"image/">>)
                    /\ ~StartsWith(ct, <<"application/pdf">>)
        IN  IF text THEN TextPathTaken ELSE BinaryPathTaken
C22_Witness ==
    /\ pc = "done"
    /\ Succeeded
    /\ response.contentType = PdfXml
    /\ BinaryPathTaken

\* the result is the timeout error
TimeoutResult ==
    /\ result.isError
    /\ result.structuredContent.statusCode = -1
    /\ Message = <<"Request timeout after ", ToString(config.fetchTimeout), "s">>

\* C23: the timer and the completion of the call do not both decide a result.
\* Once the call has completed the timer is disarmed and never fires, and the
\* result is not the timeout error even when the deadline has passed since;
\* once the timer has fired the call is abandoned, no response or body is
\* kept, and the result is the timeout error.
C23_FirstDecides ==
    /\ ResponseReceived =>
          /\ timer.state = "cleared"
          /\ ~netCall.aborted
          /\ Returned => ~TimeoutResult
    /\ timer.state = "fired" =>
          /\ fetchState = "rejected"
          /\ netCall.aborted
          /\ response = NoResponse
          /\ Returned /\ TimeoutResult
C23_Witness ==
    /\ pc = "done"
    /\ ResponseReceived
    /\ BodyRead
    /\ now >= timer.deadline
    /\ ~result.isError

\* C24: the byte count logged for a fetch that succeeded is the byte length of
\* the body as received, within the cap and beyond it.
C24_LoggedIsBodyLength ==
    (Succeeded /\ Len(logged) = 1) =>
        logged[1].responseSize = ByteLength(response.body)

\* C24, what the code does: the binary path logs the byte length of the body;
\* the text path logs the length of the decoded text encoded again, which is
\* the byte length of the body when the body is well-formed UTF-8; neither
\* logs the length of the truncated payload.
C24_LoggedIsMeasuredLength ==
    (Succeeded /\ Len(logged) = 1) =>
        /\ BinaryPathTaken => logged[1].responseSize = ByteLength(response.body)
        /\ TextPathTaken =>
              logged[1].responseSize =
                  response.body.run + Len(Utf8Encode(Utf8Decode(response.body.rest)))
        /\ WellFormed(response.body) => logged[1].responseSize = ByteLength(response.body)

=============================================================================
